---------------------------- MODULE Spec2Model ----------------------------
(***************************************************************************)
(* Model of src/credit_scoring.py: evaluate_customer, a rule-based credit  *)
(* scoring function.  One evaluation is a run of the state machine: the    *)
(* input record is fixed in Init, then the four category blocks and the    *)
(* aggregation run in the order of the source.                             *)
(*                                                                         *)
(* Numbers.  Field values that the code converts with float() or int()     *)
(* are fixed-point numbers counted in tenths (15.0 is 150, 1.2 is 12), so  *)
(* that the thresholds 1.2 and 1.5 and the truncation done by int() are    *)
(* representable.  Scores are whole points: every sub-score the code       *)
(* assigns is an integer literal.                                          *)
(***************************************************************************)
EXTENDS Integers, Sequences, FiniteSets, TLC

VARIABLES data, pc, reasons, local, result

vars == <<data, pc, reasons, local, result>>

-----------------------------------------------------------------------------
(* Python values of the input dict.  Absent is a missing key, Null is None. *)

Absent == [k |-> "absent"]
Null == [k |-> "null"]
Num(x) == [k |-> "num", n |-> x]
Bool(x) == [k |-> "bool", b |-> x]
Str(t) == [k |-> "str", s |-> t]

\* dict.get(key, default): the default only when the key is missing.
get(d, key, default) == IF d[key] = Absent THEN default ELSE d[key]

\* Python truthiness: None, 0, 0.0, False and "" are falsy.
truthy(v) ==
    CASE v.k = "null" -> FALSE
      [] v.k = "num" -> v.n # 0
      [] v.k = "bool" -> v.b
      [] v.k = "str" -> v.s # ""
      [] OTHER -> FALSE

\* a or b
or(v, w) == IF truthy(v) THEN v ELSE w

\* float(v) raises TypeError on None (and ValueError on a non-numeric string).
float_raises(v) == v.k \notin {"num", "bool"}

\* float(v), in tenths.
float(v) == IF v.k = "bool" THEN (IF v.b THEN 10 ELSE 0) ELSE v.n

\* int(v): truncation toward zero; the argument is in tenths, the result in units.
int(v) ==
    LET x == float(v)
    IN  IF x >= 0 THEN x \div 10 ELSE 0 - ((0 - x) \div 10)

\* bool(v)
bool(v) == truthy(v)

\* str(v) for the values the string fields take here.
str(v) ==
    CASE v.k = "str" -> v.s
      [] v.k = "null" -> "None"
      [] v.k = "bool" -> IF v.b THEN "True" ELSE "False"
      [] OTHER -> "<number>"

\* str.lower() on the strings of the input domains.
lower(t) ==
    CASE t = "IMPROVING" -> "improving"
      [] t = "Stable" -> "stable"
      [] t = "Declining" -> "declining"
      [] t = "LOW" -> "low"
      [] t = "Medium" -> "medium"
      [] t = "High" -> "high"
      [] t = "None" -> "none"
      [] t = "True" -> "true"
      [] t = "False" -> "false"
      [] OTHER -> t

\* str.upper() on the strings of the input domains.
upper(t) ==
    CASE t = "aaa" -> "AAA"
      [] t = "Aa" -> "AA"
      [] t = "a" -> "A"
      [] t = "bbb" -> "BBB"
      [] t = "bb" -> "BB"
      [] t = "b" -> "B"
      [] t = "c" -> "C"
      [] t = "xyz" -> "XYZ"
      [] OTHER -> t

\* max(lo, min(hi, x))
min(a, b) == IF a <= b THEN a ELSE b
max(a, b) == IF a >= b THEN a ELSE b

\* Variant: the lower bound is dropped.
clampNoFloor(x, lo, hi) == min(hi, x)

clamp(x, lo, hi) == max(lo, min(hi, x))

\* round(x, 1): the scores are whole numbers of points, which rounding to
\* one decimal leaves as they are.
round1(x) == x

-----------------------------------------------------------------------------
(* The scoring rules.  Each gives the sub-score and the reasons appended.   *)

R(score, rs) == [score |-> score, reasons |-> rs]

\* Net Profit Margin (10)
s_npm(npm) ==
    IF npm > 100 THEN R(10, <<>>)
    ELSE IF npm > 50 THEN R(8, <<>>)
    ELSE IF npm > 20 THEN R(5, <<>>)
    ELSE IF npm > 0 THEN R(2, <<>>)
    ELSE R(0, <<"Net profit margin is very low or negative.">>)

\* Current Ratio (8)
s_cr(curr_ratio) ==
    IF curr_ratio >= 15 THEN R(8, <<>>)
    ELSE IF curr_ratio >= 12 THEN R(6, <<>>)
    ELSE IF curr_ratio >= 10 THEN R(4, <<>>)
    ELSE R(1, <<"Current ratio below 1.0 indicates tight liquidity.">>)

\* Debt-to-Equity (8)
s_d2e(d2e) ==
    IF d2e <= 10 THEN R(8, <<>>)
    ELSE IF d2e <= 20 THEN R(6, <<>>)
    ELSE IF d2e <= 30 THEN R(3, <<>>)
    ELSE R(0, <<"Debt-to-equity is very high.">>)

\* Bank limit utilisation (8)
s_bank(bank_util) ==
    IF 400 <= bank_util /\ bank_util <= 800 THEN R(8, <<>>)
    ELSE IF bank_util < 400 THEN
        R(6, <<"Bank limit utilisation is low; could indicate underutilisation of facilities.">>)
    ELSE IF bank_util <= 900 THEN R(5, <<>>)
    ELSE R(2, <<"Bank limit utilisation consistently >90% indicates stress on working capital.">>)

\* Turnover trend (6)
s_trend(trend) ==
    IF trend = "improving" THEN R(6, <<>>)
    ELSE IF trend = "stable" THEN R(4, <<>>)
    ELSE IF trend = "declining" THEN R(1, <<"Turnover trend is declining.">>)
    ELSE R(3, <<>>)

\* Days to pay (10); avg_days is a whole number of days.
s_days(avg_days) ==
    IF avg_days <= 30 THEN R(10, <<>>)
    ELSE IF avg_days <= 45 THEN R(8, <<>>)
    ELSE IF avg_days <= 60 THEN R(5, <<>>)
    ELSE IF avg_days <= 90 THEN R(2, <<"Average payment days are on the higher side.">>)
    ELSE R(0, <<"Very high average payment days.">>)

\* Bounced cheques (10); bounces is a whole number.
s_bounce(bounces) ==
    IF bounces = 0 THEN R(10, <<>>)
    ELSE IF bounces <= 2 THEN R(7, <<"Some cheque bounces in last 12 months.">>)
    ELSE IF bounces <= 5 THEN R(3, <<"Multiple cheque bounces in last 12 months.">>)
    ELSE R(0, <<"Frequent cheque bounces in last 12 months.">>)

\* Variant: the sign of the past-default adjustment is lost.
s_default_adj_bonus(past_default) ==
    IF past_default THEN R(5, <<"History of default / write-off reported.">>)
    ELSE R(0, <<>>)

\* Past default flag (up to -5)
s_default_adj(past_default) ==
    IF past_default THEN R(0 - 5, <<"History of default / write-off reported.">>)
    ELSE R(0, <<>>)

\* Variant: anything that is not True is scored as False.
s_gst_falsy(gst_filing_timely) ==
    IF gst_filing_timely = Bool(TRUE) THEN R(5, <<>>)
    ELSE R(1, <<"GST filing not timely.">>)

\* GST filing (5): "is True" / "is False" / anything else.
s_gst(gst_filing_timely) ==
    IF gst_filing_timely = Bool(TRUE) THEN R(5, <<>>)
    ELSE IF gst_filing_timely = Bool(FALSE) THEN R(1, <<"GST filing not timely.">>)
    ELSE R(3, <<>>)

\* Variant: the polarity of the litigation flag is inverted.
s_lit_flipped(active_litigation) ==
    IF active_litigation = Bool(TRUE) THEN R(5, <<>>)
    ELSE IF active_litigation = Bool(FALSE) THEN
        R(1, <<"Active litigation / legal disputes reported.">>)
    ELSE R(3, <<>>)

\* Litigation (5)
s_lit(active_litigation) ==
    IF active_litigation = Bool(FALSE) THEN R(5, <<>>)
    ELSE IF active_litigation = Bool(TRUE) THEN
        R(1, <<"Active litigation / legal disputes reported.">>)
    ELSE R(3, <<>>)

\* rating_score_map.get(cr_up, 1)
rating_score_map(cr_up) ==
    CASE cr_up = "AAA" -> 5
      [] cr_up = "AA" -> 4
      [] cr_up = "A" -> 3
      [] cr_up = "BBB" -> 2
      [] cr_up = "BB" -> 1
      [] cr_up = "B" -> 0
      [] cr_up = "C" -> 0
      [] OTHER -> 1

\* Variant: the weak-rating test is made on the rating as supplied, not on
\* its upper-cased form.
s_rating_raw_case(credit_rating) ==
    IF truthy(credit_rating) THEN
        LET cr == str(credit_rating)
        IN  R(rating_score_map(upper(cr)),
              IF cr = "B" THEN <<"Weak external rating (B).">>
              ELSE IF cr = "C" THEN <<"Weak external rating (C).">>
              ELSE <<>>)
    ELSE R(1, <<>>)

\* External rating (5)
s_rating(credit_rating) ==
    IF truthy(credit_rating) THEN
        LET cr_up == upper(str(credit_rating))
        IN  R(rating_score_map(cr_up),
              IF cr_up = "B" THEN <<"Weak external rating (B).">>
              ELSE IF cr_up = "C" THEN <<"Weak external rating (C).">>
              ELSE <<>>)
    ELSE R(1, <<>>)

\* Years in business (6); years in tenths.
s_years(years) ==
    IF years >= 100 THEN R(6, <<>>)
    ELSE IF years >= 50 THEN R(4, <<>>)
    ELSE IF years >= 20 THEN R(2, <<>>)
    ELSE R(0, <<"Limited operating history.">>)

\* Industry risk (5)
s_ind(industry_risk) ==
    IF industry_risk = "low" THEN R(5, <<>>)
    ELSE IF industry_risk = "medium" THEN R(3, <<>>)
    ELSE IF industry_risk = "high" THEN R(1, <<"High-risk industry.">>)
    ELSE R(2, <<>>)

\* Concentration risk (4); top5_share in tenths of a percent.
s_conc(top5_share) ==
    IF top5_share <= 400 THEN R(4, <<>>)
    ELSE IF top5_share <= 600 THEN R(3, <<>>)
    ELSE IF top5_share <= 800 THEN R(2, <<"Moderate customer concentration.">>)
    ELSE R(0, <<"Very high dependence on few customers.">>)

\* Management risk penalty (up to -3)
s_mgmt(mgmt_risk) ==
    IF mgmt_risk THEN
        R(0 - 3, <<"Concerns flagged on management integrity / governance.">>)
    ELSE R(0, <<>>)

-----------------------------------------------------------------------------
(* The four category blocks, as functions of the input dict.  Each gives    *)
(* the locals it assigns and the reasons it appends, in source order.       *)

\* float(None) at the head of the financial block raises before any scoring.
financial_raises(d) ==
    \/ float_raises(get(d, "net_profit_margin", Num(0)))
    \/ float_raises(get(d, "current_ratio", Num(0)))
    \/ float_raises(get(d, "debt_to_equity", Num(0)))
    \/ float_raises(get(d, "banking_limit_utilisation", Num(0)))

\* 1) Financial strength (40 points)
financial(d) ==
    LET npm == float(get(d, "net_profit_margin", Num(0)))
        curr_ratio == float(get(d, "current_ratio", Num(0)))
        d2e == float(get(d, "debt_to_equity", Num(0)))
        bank_util == float(get(d, "banking_limit_utilisation", Num(0)))
        trend == lower(str(or(get(d, "turnover_trend", Str("stable")), Str(""))))
        a == s_npm(npm)
        b == s_cr(curr_ratio)
        c == s_d2e(d2e)
        e == s_bank(bank_util)
        f == s_trend(trend)
        raw == a.score + b.score + c.score + e.score + f.score
    IN  [local |-> [s_npm |-> a.score, s_cr |-> b.score, s_d2e |-> c.score,
                    s_bank |-> e.score, s_trend |-> f.score,
                    financial_strength |-> clamp(raw, 0, 40)],
         reasons |-> a.reasons \o b.reasons \o c.reasons \o e.reasons \o f.reasons]

\* Variant: the past-default rule runs before the other two payment rules.
payment_default_first(d) ==
    LET avg_days == int(or(get(d, "avg_days_to_pay", Num(450)), Num(450)))
        bounces == int(or(get(d, "bounced_cheques_last_12m", Num(0)), Num(0)))
        past_default == bool(get(d, "past_default_flag", Bool(FALSE)))
        a == s_days(avg_days)
        b == s_bounce(bounces)
        c == s_default_adj(past_default)
        raw == a.score + b.score + c.score
    IN  [local |-> [s_days |-> a.score, s_bounce |-> b.score,
                    s_default_adj |-> c.score,
                    payment_behaviour |-> clamp(raw, 0, 30)],
         reasons |-> c.reasons \o a.reasons \o b.reasons]

\* 2) Payment behaviour (30 points)
payment(d) ==
    LET avg_days == int(or(get(d, "avg_days_to_pay", Num(450)), Num(450)))
        bounces == int(or(get(d, "bounced_cheques_last_12m", Num(0)), Num(0)))
        past_default == bool(get(d, "past_default_flag", Bool(FALSE)))
        a == s_days(avg_days)
        b == s_bounce(bounces)
        c == s_default_adj(past_default)
        raw == a.score + b.score + c.score
    IN  [local |-> [s_days |-> a.score, s_bounce |-> b.score,
                    s_default_adj |-> c.score,
                    payment_behaviour |-> clamp(raw, 0, 30)],
         reasons |-> a.reasons \o b.reasons \o c.reasons]

\* 3) External checks (15 points)
external(d) ==
    LET gst_filing_timely == get(d, "gst_filing_timely", Null)
        active_litigation == get(d, "active_litigation", Null)
        credit_rating == get(d, "credit_rating", Null)
        a == s_gst(gst_filing_timely)
        b == s_lit(active_litigation)
        c == s_rating(credit_rating)
        raw == a.score + b.score + c.score
    IN  [local |-> [s_gst |-> a.score, s_lit |-> b.score, s_rating |-> c.score,
                    external_checks |-> clamp(raw, 0, 15)],
         reasons |-> a.reasons \o b.reasons \o c.reasons]

\* 4) Business stability (15 points)
stability(d) ==
    LET years == float(or(get(d, "years_in_business", Num(0)), Num(0)))
        industry_risk ==
            lower(str(or(get(d, "industry_risk", Str("medium")), Str("medium"))))
        top5_share == float(or(get(d, "top_5_customer_share", Num(0)), Num(0)))
        mgmt_risk == bool(get(d, "management_risk_flag", Bool(FALSE)))
        a == s_years(years)
        b == s_ind(industry_risk)
        c == s_conc(top5_share)
        m == s_mgmt(mgmt_risk)
        stability_raw == a.score + b.score + c.score + m.score
    IN  [local |-> [s_years |-> a.score, s_ind |-> b.score, s_conc |-> c.score,
                    stability_raw |-> stability_raw,
                    business_stability |-> clamp(stability_raw, 0, 15)],
         reasons |-> a.reasons \o b.reasons \o c.reasons \o m.reasons]

\* Variant: the last category is left out of the total.
total_of_three(fs, pb, ec, bs) == clamp(fs + pb + ec, 0, 100)

\* Aggregate score
total_of(fs, pb, ec, bs) == clamp(fs + pb + ec + bs, 0, 100)

\* Variant: the LOW threshold is exclusive.
risk_band_of_strict(total_score) ==
    IF total_score > 75 THEN "LOW"
    ELSE IF total_score >= 50 THEN "MEDIUM"
    ELSE "HIGH"

\* Risk band
risk_band_of(total_score) ==
    IF total_score >= 75 THEN "LOW"
    ELSE IF total_score >= 50 THEN "MEDIUM"
    ELSE "HIGH"

\* Decision
decision_of(risk_band) ==
    IF risk_band = "LOW" THEN "APPROVE"
    ELSE IF risk_band = "MEDIUM" THEN "CONDITIONAL_APPROVAL"
    ELSE "REJECT"

\* ScoreResult(...)
ScoreResult(fs, pb, ec, bs, total_score, rs) ==
    [k |-> "ScoreResult",
     total_score |-> round1(total_score),
     risk_band |-> risk_band_of(total_score),
     decision |-> decision_of(risk_band_of(total_score)),
     category_scores |-> [financial_strength |-> round1(fs),
                          payment_behaviour |-> round1(pb),
                          external_checks |-> round1(ec),
                          business_stability |-> round1(bs)],
     reasons |-> rs]

TypeError == [k |-> "TypeError"]
NoResult == [k |-> "none"]

\* The whole call: what evaluate_customer(d) returns, or the exception raised.
evaluate_customer(d) ==
    IF financial_raises(d) THEN TypeError
    ELSE LET f == financial(d)
             p == payment(d)
             e == external(d)
             s == stability(d)
         IN  ScoreResult(f.local.financial_strength, p.local.payment_behaviour,
                         e.local.external_checks, s.local.business_stability,
                         total_of(f.local.financial_strength,
                                  p.local.payment_behaviour,
                                  e.local.external_checks,
                                  s.local.business_stability),
                         f.reasons \o p.reasons \o e.reasons \o s.reasons)

-----------------------------------------------------------------------------
(* The inputs.  Every field may be missing or None; the other values hit    *)
(* each branch of the field's rule and its boundaries.                      *)

MaxBounces == 7

Fields ==
    {"net_profit_margin", "current_ratio", "debt_to_equity",
     "banking_limit_utilisation", "turnover_trend", "avg_days_to_pay",
     "bounced_cheques_last_12m", "past_default_flag", "gst_filing_timely",
     "active_litigation", "credit_rating", "years_in_business",
     "industry_risk", "top_5_customer_share", "management_risk_flag"}

Missing == {Absent, Null}
Flags == Missing \cup {Bool(TRUE), Bool(FALSE)}

Values(f) ==
    CASE f = "net_profit_margin" ->
            Missing \cup {Num(x) : x \in {0 - 20, 0, 20, 50, 100, 150}}
      [] f = "current_ratio" ->
            Missing \cup {Num(x) : x \in {8, 10, 12, 15, 20}}
      [] f = "debt_to_equity" ->
            Missing \cup {Num(x) : x \in {5, 10, 20, 30, 40}}
      [] f = "banking_limit_utilisation" ->
            Missing \cup {Num(x) : x \in {390, 400, 600, 800, 900, 950}}
      [] f = "turnover_trend" ->
            Missing \cup {Str(x) : x \in {"improving", "IMPROVING", "stable",
                                          "declining", "Declining", "unknown", ""}}
      [] f = "avg_days_to_pay" ->
            Missing \cup {Num(x) : x \in {0, 200, 300, 305, 450, 600, 605,
                                          900, 910, 1200}}
      [] f = "bounced_cheques_last_12m" ->
            Missing \cup {Num(10 * i) : i \in 0..MaxBounces} \cup {Num(5)}
      [] f = "past_default_flag" -> Flags
      [] f = "gst_filing_timely" -> Flags
      [] f = "active_litigation" -> Flags
      [] f = "credit_rating" ->
            Missing \cup {Str(x) : x \in {"AAA", "AA", "A", "BBB", "BB", "B",
                                          "C", "aaa", "b", "XYZ", ""}}
      [] f = "years_in_business" ->
            Missing \cup {Num(x) : x \in {0, 10, 20, 50, 100, 150}}
      [] f = "industry_risk" ->
            Missing \cup {Str(x) : x \in {"low", "LOW", "medium", "high",
                                          "not sure", ""}}
      [] f = "top_5_customer_share" ->
            Missing \cup {Num(x) : x \in {0, 200, 400, 600, 800, 900}}
      [] f = "management_risk_flag" -> Flags

FinancialFields ==
    {"net_profit_margin", "current_ratio", "debt_to_equity",
     "banking_limit_utilisation", "turnover_trend"}
PaymentFields == {"avg_days_to_pay", "bounced_cheques_last_12m", "past_default_flag"}
ExternalFields == {"gst_filing_timely", "active_litigation", "credit_rating"}
StabilityFields ==
    {"years_in_business", "industry_risk", "top_5_customer_share",
     "management_risk_flag"}

\* The three applicants of the documentation: nothing supplied, strong, weak.
EmptyRecord == [f \in Fields |-> Absent]

StrongApplicant ==
    [net_profit_margin |-> Num(150), current_ratio |-> Num(20),
     debt_to_equity |-> Num(5), banking_limit_utilisation |-> Num(600),
     turnover_trend |-> Str("improving"), avg_days_to_pay |-> Num(200),
     bounced_cheques_last_12m |-> Num(0), past_default_flag |-> Bool(FALSE),
     gst_filing_timely |-> Bool(TRUE), active_litigation |-> Bool(FALSE),
     credit_rating |-> Str("AAA"), years_in_business |-> Num(150),
     industry_risk |-> Str("low"), top_5_customer_share |-> Num(200),
     management_risk_flag |-> Bool(FALSE)]

WeakApplicant ==
    [net_profit_margin |-> Num(0 - 20), current_ratio |-> Num(8),
     debt_to_equity |-> Num(40), banking_limit_utilisation |-> Num(950),
     turnover_trend |-> Str("declining"), avg_days_to_pay |-> Num(1200),
     bounced_cheques_last_12m |-> Num(70), past_default_flag |-> Bool(TRUE),
     gst_filing_timely |-> Bool(FALSE), active_litigation |-> Bool(TRUE),
     credit_rating |-> Str("C"), years_in_business |-> Num(10),
     industry_risk |-> Str("high"), top_5_customer_share |-> Num(900),
     management_risk_flag |-> Bool(TRUE)]

Profiles == {EmptyRecord, StrongApplicant, WeakApplicant}

-----------------------------------------------------------------------------
(* One call of evaluate_customer(data).  The call starts on a record that   *)
(* agrees with one of the three applicants outside one category and takes   *)
(* any combination of values on the fields of that category, or on a record *)
(* that takes each category from one of the three applicants.               *)

FinancialInput(p) ==
    \E a \in Values("net_profit_margin"), b \in Values("current_ratio"),
       c \in Values("debt_to_equity"),
       e \in Values("banking_limit_utilisation"),
       t \in Values("turnover_trend") :
        data = [p EXCEPT !.net_profit_margin = a, !.current_ratio = b,
                         !.debt_to_equity = c,
                         !.banking_limit_utilisation = e,
                         !.turnover_trend = t]

PaymentInput(p) ==
    \E a \in Values("avg_days_to_pay"),
       b \in Values("bounced_cheques_last_12m"),
       c \in Values("past_default_flag") :
        data = [p EXCEPT !.avg_days_to_pay = a,
                         !.bounced_cheques_last_12m = b,
                         !.past_default_flag = c]

ExternalInput(p) ==
    \E a \in Values("gst_filing_timely"), b \in Values("active_litigation"),
       c \in Values("credit_rating") :
        data = [p EXCEPT !.gst_filing_timely = a, !.active_litigation = b,
                         !.credit_rating = c]

StabilityInput(p) ==
    \E a \in Values("years_in_business"), b \in Values("industry_risk"),
       c \in Values("top_5_customer_share"),
       m \in Values("management_risk_flag") :
        data = [p EXCEPT !.years_in_business = a, !.industry_risk = b,
                         !.top_5_customer_share = c,
                         !.management_risk_flag = m]

\* Each category's fields taken from an applicant of its own.
MixedInput ==
    \E pf \in Profiles, pp \in Profiles, pe \in Profiles, ps \in Profiles :
        data = [f \in Fields |->
                    IF f \in FinancialFields THEN pf[f]
                    ELSE IF f \in PaymentFields THEN pp[f]
                    ELSE IF f \in ExternalFields THEN pe[f]
                    ELSE ps[f]]

Init ==
    /\ \/ \E p \in Profiles :
            \/ FinancialInput(p)
            \/ PaymentInput(p)
            \/ ExternalInput(p)
            \/ StabilityInput(p)
       \/ MixedInput
    /\ pc = "financial"
    /\ reasons = <<>>
    /\ local = <<>>
    /\ result = NoResult

\* float(None) on one of the four numeric financial fields (lines 61-64).
RaiseTypeError ==
    /\ pc = "financial"
    /\ financial_raises(data)
    /\ pc' = "raised"
    /\ result' = TypeError
    /\ UNCHANGED <<data, reasons, local>>

FinancialStrength ==
    /\ pc = "financial"
    /\ ~financial_raises(data)
    /\ local' = local @@ financial(data).local
    /\ reasons' = reasons \o financial(data).reasons
    /\ pc' = "payment"
    /\ UNCHANGED <<data, result>>

PaymentBehaviour ==
    /\ pc = "payment"
    /\ local' = local @@ payment(data).local
    /\ reasons' = reasons \o payment(data).reasons
    /\ pc' = "external"
    /\ UNCHANGED <<data, result>>

ExternalChecks ==
    /\ pc = "external"
    /\ local' = local @@ external(data).local
    /\ reasons' = reasons \o external(data).reasons
    /\ pc' = "stability"
    /\ UNCHANGED <<data, result>>

BusinessStability ==
    /\ pc = "stability"
    /\ local' = local @@ stability(data).local
    /\ reasons' = reasons \o stability(data).reasons
    /\ pc' = "aggregate"
    /\ UNCHANGED <<data, result>>

Aggregate ==
    /\ pc = "aggregate"
    /\ LET total_score == total_of(local.financial_strength,
                                   local.payment_behaviour,
                                   local.external_checks,
                                   local.business_stability)
       IN  /\ local' = local @@ [total_score |-> total_score]
           /\ result' = ScoreResult(local.financial_strength,
                                    local.payment_behaviour,
                                    local.external_checks,
                                    local.business_stability,
                                    total_score, reasons)
    /\ pc' = "done"
    /\ UNCHANGED <<data, reasons>>

Next ==
    \/ RaiseTypeError
    \/ FinancialStrength
    \/ PaymentBehaviour
    \/ ExternalChecks
    \/ BusinessStability
    \/ Aggregate

Spec == Init /\ [][Next]_vars

-----------------------------------------------------------------------------
(* Vocabulary of the properties.                                            *)

\* A valid record: every field is a value of its type or is missing; None
\* is not a value of any field's type.
Valid(d) == \A f \in Fields : d[f] # Null

\* The integer fields hold whole numbers.
Whole(v) == v.k = "num" => v.n % 10 = 0
WholeCounts(d) ==
    Whole(d["avg_days_to_pay"]) /\ Whole(d["bounced_cheques_last_12m"])

\* The number a numeric field stands for once the documented default is
\* applied to a missing field, in tenths.
Defaulted(d, f, default) == IF d[f] \in Missing THEN default ELSE d[f].n

Returned == pc = "done"
Has(r) == \E i \in DOMAIN result.reasons : result.reasons[i] = r
Within(x, lo, hi) == lo <= x /\ x <= hi
Bounded(x, hi) == IF x < 0 THEN 0 ELSE IF x > hi THEN hi ELSE x

FinancialRaw ==
    local.s_npm + local.s_cr + local.s_d2e + local.s_bank + local.s_trend
PaymentRaw == local.s_days + local.s_bounce + local.s_default_adj
ExternalRaw == local.s_gst + local.s_lit + local.s_rating
StabilityRaw ==
    local.s_years + local.s_ind + local.s_conc
    - (IF data.management_risk_flag = Bool(TRUE) THEN 3 ELSE 0)

-----------------------------------------------------------------------------
\* C1: for every valid input record the call returns, with total_score in
\* [0,100], financial_strength in [0,40], payment_behaviour in [0,30],
\* external_checks in [0,15] and business_stability in [0,15].
C1_ScoreRanges ==
    /\ Valid(data) => pc # "raised"
    /\ Returned =>
        /\ Within(result.total_score, 0, 100)
        /\ Within(result.category_scores.financial_strength, 0, 40)
        /\ Within(result.category_scores.payment_behaviour, 0, 30)
        /\ Within(result.category_scores.external_checks, 0, 15)
        /\ Within(result.category_scores.business_stability, 0, 15)

\* A valid record whose payment sum is negative before the clamp.
C1_Witness == Returned /\ Valid(data) /\ PaymentRaw < 0

\* C2 as stated: the strong applicant scores 40, 30, 15, 15, total 100, LOW,
\* APPROVE, with no reasons.
C2_StrongApplicantAsStated ==
    (Returned /\ data = StrongApplicant) =>
        result = [k |-> "ScoreResult", total_score |-> 100,
                  risk_band |-> "LOW", decision |-> "APPROVE",
                  category_scores |-> [financial_strength |-> 40,
                                       payment_behaviour |-> 30,
                                       external_checks |-> 15,
                                       business_stability |-> 15],
                  reasons |-> <<>>]

\* C2 amended: the strong applicant scores 40, 20, 15, 15, total 90, LOW,
\* APPROVE, with no reasons.
C2_StrongApplicant ==
    (Returned /\ data = StrongApplicant) =>
        result = [k |-> "ScoreResult", total_score |-> 90,
                  risk_band |-> "LOW", decision |-> "APPROVE",
                  category_scores |-> [financial_strength |-> 40,
                                       payment_behaviour |-> 20,
                                       external_checks |-> 15,
                                       business_stability |-> 15],
                  reasons |-> <<>>]

C2_Witness == Returned /\ data = StrongApplicant

\* C3: improving a single scored field, all others fixed, never decreases
\* that field's sub-score.  Better is: higher net_profit_margin,
\* current_ratio, years_in_business; lower debt_to_equity; lower
\* avg_days_to_pay and bounced_cheques_last_12m (non-negative integers,
\* zero included); lower top_5_customer_share; industry_risk from "high" to
\* "medium" to "low".
IndustryRank(v) ==
    CASE v = Str("high") -> 1
      [] v = Str("medium") -> 2
      [] v = Str("low") -> 3
      [] OTHER -> 0

Comparable(f, v) ==
    CASE f = "industry_risk" -> IndustryRank(v) > 0
      [] f \in {"avg_days_to_pay", "bounced_cheques_last_12m"} ->
            v.k = "num" /\ v.n >= 0 /\ v.n % 10 = 0
      [] OTHER -> v.k = "num"

\* w is at least as good a value of field f as v.
AtLeastAsGood(f, w, v) ==
    CASE f \in {"net_profit_margin", "current_ratio", "years_in_business"} ->
            w.n >= v.n
      [] f = "industry_risk" -> IndustryRank(w) >= IndustryRank(v)
      [] OTHER -> w.n <= v.n

MonotoneFields ==
    {"net_profit_margin", "current_ratio", "debt_to_equity",
     "avg_days_to_pay", "bounced_cheques_last_12m", "years_in_business",
     "industry_risk", "top_5_customer_share"}

\* The sub-score of field f when d is evaluated.
SubScore(f, d) ==
    CASE f = "net_profit_margin" -> financial(d).local.s_npm
      [] f = "current_ratio" -> financial(d).local.s_cr
      [] f = "debt_to_equity" -> financial(d).local.s_d2e
      [] f = "avg_days_to_pay" -> payment(d).local.s_days
      [] f = "bounced_cheques_last_12m" -> payment(d).local.s_bounce
      [] f = "years_in_business" -> stability(d).local.s_years
      [] f = "industry_risk" -> stability(d).local.s_ind
      [] f = "top_5_customer_share" -> stability(d).local.s_conc

SubScoreName(f) ==
    CASE f = "net_profit_margin" -> "s_npm"
      [] f = "current_ratio" -> "s_cr"
      [] f = "debt_to_equity" -> "s_d2e"
      [] f = "avg_days_to_pay" -> "s_days"
      [] f = "bounced_cheques_last_12m" -> "s_bounce"
      [] f = "years_in_business" -> "s_years"
      [] f = "industry_risk" -> "s_ind"
      [] f = "top_5_customer_share" -> "s_conc"

C3_Monotone ==
    (Returned /\ Valid(data)) =>
        \A f \in MonotoneFields :
            Comparable(f, data[f]) =>
                \A w \in Values(f) :
                    (Comparable(f, w) /\ AtLeastAsGood(f, w, data[f])) =>
                        SubScore(f, [data EXCEPT ![f] = w])
                            >= local[SubScoreName(f)]

\* C4: a field present with the value None is treated exactly like a
\* missing field: the call ends as it does on the record without the field,
\* with the same scores, band, decision and reasons, and raises nothing.
C4_NullAsAbsent ==
    (pc \in {"done", "raised"}) =>
        \A f \in Fields :
            data[f] = Null =>
                result = evaluate_customer([data EXCEPT ![f] = Absent])

\* C5: band and decision are a function of total_score alone: >= 75 gives
\* LOW and APPROVE, 50 to below 75 gives MEDIUM and CONDITIONAL_APPROVAL,
\* below 50 gives HIGH and REJECT.
C5_BandAndDecision ==
    Returned =>
        /\ result.total_score >= 75 =>
            (result.risk_band = "LOW" /\ result.decision = "APPROVE")
        /\ (result.total_score >= 50 /\ result.total_score < 75) =>
            (result.risk_band = "MEDIUM"
             /\ result.decision = "CONDITIONAL_APPROVAL")
        /\ result.total_score < 50 =>
            (result.risk_band = "HIGH" /\ result.decision = "REJECT")
        /\ (result.decision = "APPROVE" <=> result.risk_band = "LOW")
        /\ (result.decision = "CONDITIONAL_APPROVAL"
                <=> result.risk_band = "MEDIUM")
        /\ (result.decision = "REJECT" <=> result.risk_band = "HIGH")

\* A total exactly on the LOW threshold.
C5_Witness == Returned /\ result.total_score = 75

\* C6: on a valid input a reason is returned if and only if the condition
\* of its adverse branch holds on the input with the documented defaults
\* applied; nothing is returned for unknown tri-state values or for
\* unrecognised turnover_trend, industry_risk or credit_rating strings.
AllReasons ==
    {"Net profit margin is very low or negative.",
     "Current ratio below 1.0 indicates tight liquidity.",
     "Debt-to-equity is very high.",
     "Bank limit utilisation is low; could indicate underutilisation of facilities.",
     "Bank limit utilisation consistently >90% indicates stress on working capital.",
     "Turnover trend is declining.",
     "Average payment days are on the higher side.",
     "Very high average payment days.",
     "Some cheque bounces in last 12 months.",
     "Multiple cheque bounces in last 12 months.",
     "Frequent cheque bounces in last 12 months.",
     "History of default / write-off reported.",
     "GST filing not timely.",
     "Active litigation / legal disputes reported.",
     "Weak external rating (B).",
     "Weak external rating (C).",
     "Limited operating history.",
     "High-risk industry.",
     "Moderate customer concentration.",
     "Very high dependence on few customers.",
     "Concerns flagged on management integrity / governance."}

C6_ReasonsIff ==
    (Returned /\ Valid(data) /\ WholeCounts(data)) =>
        LET npm == Defaulted(data, "net_profit_margin", 0)
            cr == Defaulted(data, "current_ratio", 0)
            d2e == Defaulted(data, "debt_to_equity", 0)
            bank == Defaulted(data, "banking_limit_utilisation", 0)
            days == Defaulted(data, "avg_days_to_pay", 450)
            bounces == Defaulted(data, "bounced_cheques_last_12m", 0)
            years == Defaulted(data, "years_in_business", 0)
            top5 == Defaulted(data, "top_5_customer_share", 0)
        IN  /\ \A i \in DOMAIN result.reasons : result.reasons[i] \in AllReasons
            /\ Has("Net profit margin is very low or negative.") <=> npm <= 0
            /\ Has("Current ratio below 1.0 indicates tight liquidity.")
                <=> cr < 10
            /\ Has("Debt-to-equity is very high.") <=> d2e > 30
            /\ Has("Bank limit utilisation is low; could indicate underutilisation of facilities.")
                <=> bank < 400
            /\ Has("Bank limit utilisation consistently >90% indicates stress on working capital.")
                <=> bank > 900
            /\ Has("Turnover trend is declining.")
                <=> data.turnover_trend \in {Str("declining"), Str("Declining")}
            /\ Has("Average payment days are on the higher side.")
                <=> (days > 600 /\ days <= 900)
            /\ Has("Very high average payment days.") <=> days > 900
            /\ Has("Some cheque bounces in last 12 months.")
                <=> (bounces >= 10 /\ bounces <= 20)
            /\ Has("Multiple cheque bounces in last 12 months.")
                <=> (bounces > 20 /\ bounces <= 50)
            /\ Has("Frequent cheque bounces in last 12 months.")
                <=> bounces > 50
            /\ Has("History of default / write-off reported.")
                <=> data.past_default_flag = Bool(TRUE)
            /\ Has("GST filing not timely.")
                <=> data.gst_filing_timely = Bool(FALSE)
            /\ Has("Active litigation / legal disputes reported.")
                <=> data.active_litigation = Bool(TRUE)
            /\ Has("Weak external rating (B).")
                <=> data.credit_rating \in {Str("B"), Str("b")}
            /\ Has("Weak external rating (C).")
                <=> data.credit_rating \in {Str("C"), Str("c")}
            /\ Has("Limited operating history.") <=> years < 20
            /\ Has("High-risk industry.")
                <=> data.industry_risk \in {Str("high"), Str("High")}
            /\ Has("Moderate customer concentration.")
                <=> (top5 > 600 /\ top5 <= 800)
            /\ Has("Very high dependence on few customers.") <=> top5 > 800
            /\ Has("Concerns flagged on management integrity / governance.")
                <=> data.management_risk_flag = Bool(TRUE)

\* A lower-case weak rating next to an unrecognised industry string.
C6_Witness ==
    /\ Returned /\ Valid(data) /\ WholeCounts(data)
    /\ data.credit_rating = Str("b")
    /\ Has("Weak external rating (B).")
    /\ data.past_default_flag = Bool(TRUE)
    /\ Has("History of default / write-off reported.")

\* C7: the returned reasons follow the fixed rule order (margin, current
\* ratio, debt-to-equity, bank utilisation, turnover trend, days-to-pay,
\* bounced cheques, past default, GST, litigation, rating, years, industry,
\* concentration, management), with at most one reason per rule and no
\* duplicates.
RuleOf(r) ==
    CASE r = "Net profit margin is very low or negative." -> 1
      [] r = "Current ratio below 1.0 indicates tight liquidity." -> 2
      [] r = "Debt-to-equity is very high." -> 3
      [] r = "Bank limit utilisation is low; could indicate underutilisation of facilities." -> 4
      [] r = "Bank limit utilisation consistently >90% indicates stress on working capital." -> 4
      [] r = "Turnover trend is declining." -> 5
      [] r = "Average payment days are on the higher side." -> 6
      [] r = "Very high average payment days." -> 6
      [] r = "Some cheque bounces in last 12 months." -> 7
      [] r = "Multiple cheque bounces in last 12 months." -> 7
      [] r = "Frequent cheque bounces in last 12 months." -> 7
      [] r = "History of default / write-off reported." -> 8
      [] r = "GST filing not timely." -> 9
      [] r = "Active litigation / legal disputes reported." -> 10
      [] r = "Weak external rating (B)." -> 11
      [] r = "Weak external rating (C)." -> 11
      [] r = "Limited operating history." -> 12
      [] r = "High-risk industry." -> 13
      [] r = "Moderate customer concentration." -> 14
      [] r = "Very high dependence on few customers." -> 14
      [] r = "Concerns flagged on management integrity / governance." -> 15
      [] OTHER -> 0

C7_ReasonsOrdered ==
    Returned =>
        /\ \A i \in DOMAIN result.reasons : RuleOf(result.reasons[i]) > 0
        /\ \A i, j \in DOMAIN result.reasons :
            i < j => RuleOf(result.reasons[i]) < RuleOf(result.reasons[j])

\* Every rule has contributed its reason.
C7_Witness == Returned /\ Len(result.reasons) = 15

\* C8: the tri-state fields are scored three ways: gst_filing_timely true
\* 5, false 1 with its reason, unknown 3; active_litigation false 5, true 1
\* with its reason, unknown 3; a missing credit_rating 1; so a record with
\* all three missing gets 7, strictly between the all-negative and the
\* all-positive external_checks.
C8_TriState ==
    Returned =>
        /\ data.gst_filing_timely = Bool(TRUE) =>
            (local.s_gst = 5 /\ ~Has("GST filing not timely."))
        /\ data.gst_filing_timely = Bool(FALSE) =>
            (local.s_gst = 1 /\ Has("GST filing not timely."))
        /\ data.gst_filing_timely \in Missing =>
            (local.s_gst = 3 /\ ~Has("GST filing not timely."))
        /\ data.active_litigation = Bool(FALSE) =>
            (local.s_lit = 5
             /\ ~Has("Active litigation / legal disputes reported."))
        /\ data.active_litigation = Bool(TRUE) =>
            (local.s_lit = 1
             /\ Has("Active litigation / legal disputes reported."))
        /\ data.active_litigation \in Missing =>
            (local.s_lit = 3
             /\ ~Has("Active litigation / legal disputes reported."))
        /\ data.credit_rating \in Missing => local.s_rating = 1
        /\ (data.gst_filing_timely = Absent /\ data.active_litigation = Absent
            /\ data.credit_rating = Absent) =>
                result.category_scores.external_checks = 7
        /\ (data.gst_filing_timely = Bool(FALSE)
            /\ data.active_litigation = Bool(TRUE)
            /\ data.credit_rating \in {Str("B"), Str("C")}) =>
                result.category_scores.external_checks = 2
        /\ (data.gst_filing_timely = Bool(TRUE)
            /\ data.active_litigation = Bool(FALSE)
            /\ data.credit_rating = Str("AAA")) =>
                result.category_scores.external_checks = 15

\* The three external fields are all missing.
C8_Witness ==
    /\ Returned
    /\ data.gst_filing_timely = Absent
    /\ data.active_litigation = Absent
    /\ data.credit_rating = Absent

\* C9: the returned total_score is the sum of the four returned category
\* scores clamped to [0,100], and each returned category score is the raw
\* sum of its sub-scores, the -5 past-default and -3 management penalties
\* included, clamped to [0, ceiling].
C9_Aggregation ==
    (Returned /\ Valid(data)) =>
        /\ result.total_score =
            Bounded(result.category_scores.financial_strength
                    + result.category_scores.payment_behaviour
                    + result.category_scores.external_checks
                    + result.category_scores.business_stability, 100)
        /\ result.category_scores.financial_strength = Bounded(FinancialRaw, 40)
        /\ result.category_scores.payment_behaviour = Bounded(PaymentRaw, 30)
        /\ result.category_scores.external_checks = Bounded(ExternalRaw, 15)
        /\ result.category_scores.business_stability = Bounded(StabilityRaw, 15)
        /\ local.s_default_adj =
            (IF data.past_default_flag = Bool(TRUE) THEN 0 - 5 ELSE 0)

\* Both penalties push their raw sums below zero.
C9_Witness ==
    Returned /\ Valid(data) /\ PaymentRaw < 0 /\ StabilityRaw < 0

\* C10: payment_behaviour never exceeds 20, the raw sums of
\* financial_strength and external_checks never fall below 4 and 2, and
\* total_score lies in [6,90]: the upper clamps at 30 and at 100 are never
\* active and a total of 100 is not reached.
C10_ReachableRange ==
    (Returned /\ Valid(data)) =>
        /\ result.category_scores.payment_behaviour <= 20
        /\ PaymentRaw <= 20
        /\ FinancialRaw >= 4
        /\ ExternalRaw >= 2
        /\ Within(result.total_score, 6, 90)

\* The best reachable result.
C10_Witness ==
    /\ Returned /\ Valid(data)
    /\ result.total_score = 90
    /\ result.category_scores.payment_behaviour = 20

=============================================================================
